---- MODULE Spec2Model ----
(***************************************************************************)
(* State-machine model of the multi-step form wizard of django-nitro       *)
(* (src/nitro/wizards.py): NitroWizard's session helpers, step resolution, *)
(* form handling and the get / post handlers.                              *)
(*                                                                         *)
(* A wizard declaration (the class attribute `steps`) is fixed in the      *)
(* initial state.  Every request is handled to completion in one step      *)
(* (Get or Post); the state then holds the request, what the handler did   *)
(* (forms validated, session writes, calls of done) and the response,      *)
(* until Respond returns the response and drops the view instance.         *)
(*                                                                         *)
(* Python's None and '' are both falsy where the code tests step names, so *)
(* an absent parameter is the empty string.  A form has one field whose    *)
(* cleaned value is a number in 1..MaxField; the raw input 0 stands for a  *)
(* submission that fails validation.                                       *)
(*                                                                         *)
(* Spec is one wizard over every declaration of up to three steps.         *)
(* StoreSpec calls the session helpers directly, on entries of several     *)
(* fields.  RoundTripSpec is Spec on the two-step wizards with a record of *)
(* each step's last valid submit.  SharedSessionSpec lets two wizard       *)
(* classes handle requests in turn on one session.  ProgressSpec computes  *)
(* progress_percent for every list length, and ConcurrentSpec interleaves  *)
(* two unlocked read-modify-write updates of one session.                  *)
(*                                                                         *)
(* The module also covers the table cells (tables.py, nitro_tags.py:       *)
(* TableSpec), the mixins (mixins.py: OrganizationSpec, PermissionSpec)    *)
(* and the delete, list and inline-edit views (views.py: DeleteSpec,       *)
(* BulkSpec, SortSpec, InlineEditSpec).                                    *)
(***************************************************************************)
EXTENDS Integers, Sequences, FiniteSets, TLC

\* Number of distinct valid values of a form field.
MaxField == 2

\* Longest active step list progress_percent is computed for.
MaxSteps == 14

NoName == ""
WizardPath == "/wizard/"

\* The step names, in declaration order.  A wizard declares a prefix of
\* them, so that the later names are undeclared in the shorter wizards.
StepNames == <<"A", "B", "C">>
DeclaredNames == {StepNames[i] : i \in 1..Len(StepNames)}
FieldValues == 1..MaxField
Invalid == 0

VARIABLES
    steps,      \* NitroWizard.steps: the declared WizardStep sequence
    session,    \* request.session: session key -> wizard data
    passed,     \* history: the steps whose form passed is_valid() as current step
                \* since the session last held no wizard data
    pc,         \* "idle" (no request in progress) or "handled"
    request,    \* the request of the view instance
    pre,        \* history: the session when the request arrived
    validated,  \* history: is_valid() calls of this request, <<step name, result>>
    writes,     \* history: session writes of the engine in this request
    done_calls, \* history: the arguments done() was invoked with in this request
    response,   \* the response the handler returned
    wizard_name, \* NitroWizard.wizard_name of the class the view instance is of
    call,       \* a helper called directly: operation, step name (of a session
                \* helper), arguments and result
    submitted,  \* history: step name -> the cleaned data of its last valid
                \* submit since the last cancel
    seen,       \* history: wizard name -> the wizard data that wizard held when
                \* its last request ended
    store,      \* the session backend: session id -> stored session
    workers     \* concurrent requests: where each is in save_step_data, its
                \* step, its cleaned data and the wizard data it read

vars == <<steps, session, passed, pc, request, pre, validated, writes, done_calls,
          response, wizard_name, call, submitted, seen, store, workers>>

\* What the requests of a single wizard leave alone.
aux == <<wizard_name, call, submitted, seen, store, workers>>

Min(S) == CHOOSE x \in S : \A y \in S : x <= y
Max2(a, b) == IF a >= b THEN a ELSE b

(***************************************************************************)
(* WizardStep                                                              *)
(***************************************************************************)
\* condition=None
NoCondition == [kind |-> "none", ref |-> NoName, val |-> 0]

\* condition=lambda d: d.get(ref, {}).get('field') == val   (kind "eq")
\* condition=lambda d: d.get(ref, {}).get('field') != val   (kind "ne")
Conditions ==
    {NoCondition} \cup [kind : {"eq", "ne"}, ref : DeclaredNames, val : {1}]

WizardStep(name, form_class, skip_allowed, condition) ==
    [name |-> name, form_class |-> form_class,
     skip_allowed |-> skip_allowed, condition |-> condition]

\* The value get_current_step returns when there is no active step (None).
NoStep == WizardStep(NoName, FALSE, FALSE, NoCondition)

EmptyData == [n \in {} |-> 0]

\* step.condition(wizard_data)
CallCondition(c, wizard_data) ==
    LET field == IF c.ref \in DOMAIN wizard_data THEN wizard_data[c.ref] ELSE 0
    IN  IF c.kind = "eq" THEN field = c.val ELSE field # c.val

(***************************************************************************)
(* Session data helpers                                                    *)
(***************************************************************************)
\* The class default, wizard_name = 'wizard'.
DefaultWizardName == "wizard"

\* Variant: the key does not depend on wizard_name.
session_key_shared == "wizard_"

\* f'wizard_{self.wizard_name}'
session_key == "wizard_" \o wizard_name

get_wizard_data(s) ==
    IF session_key \in DOMAIN s THEN s[session_key] ELSE EmptyData

\* Variant: the entries already stored under the key are kept.
save_wizard_data_merges(s, data) ==
    LET old == get_wizard_data(s)
    IN  [k \in DOMAIN s \cup {session_key} |->
            IF k = session_key
            THEN [n \in DOMAIN old \cup DOMAIN data |->
                    IF n \in DOMAIN data THEN data[n] ELSE old[n]]
            ELSE s[k]]

save_wizard_data(s, data) ==
    [k \in DOMAIN s \cup {session_key} |-> IF k = session_key THEN data ELSE s[k]]

\* Variant: the entry is emptied, the session key stays.
clear_wizard_data_empties(s) ==
    [k \in DOMAIN s |-> IF k = session_key THEN EmptyData ELSE s[k]]

\* Variant: the session key is left in place.
clear_wizard_data_keeps(s) == s

clear_wizard_data(s) ==
    [k \in DOMAIN s \ {session_key} |-> s[k]]

\* Variant: always the default {}.
get_step_data_blank(s, step_name) == 0

get_step_data(s, step_name) ==
    LET wizard_data == get_wizard_data(s)
    IN  IF step_name \in DOMAIN wizard_data THEN wizard_data[step_name] ELSE 0

\* Variant: the new fields are merged into the step's previous entry.
save_step_data_merges(s, step_name, data) ==
    LET wizard_data == get_wizard_data(s)
        old == IF step_name \in DOMAIN wizard_data
               THEN wizard_data[step_name] ELSE EmptyData
        merged == [f \in DOMAIN old \cup DOMAIN data |->
                      IF f \in DOMAIN data THEN data[f] ELSE old[f]]
    IN  save_wizard_data(s,
            [n \in DOMAIN wizard_data \cup {step_name} |->
                IF n = step_name THEN merged ELSE wizard_data[n]])

save_step_data(s, step_name, data) ==
    LET wizard_data == get_wizard_data(s)
    IN  save_wizard_data(s,
            [n \in DOMAIN wizard_data \cup {step_name} |->
                IF n = step_name THEN data ELSE wizard_data[n]])

(***************************************************************************)
(* Step navigation                                                         *)
(***************************************************************************)
\* Variant: the conditions are not consulted.
get_active_steps_unfiltered(s) == steps

get_active_steps(s) ==
    LET wizard_data == get_wizard_data(s)
        Shown(step) == step.condition = NoCondition
                       \/ CallCondition(step.condition, wizard_data)
    IN  SelectSeq(steps, Shown)

\* request.GET.get('step') or request.POST.get('current_step')
RequestedStep(rq) == IF rq.qstep # NoName THEN rq.qstep ELSE rq.cstep

\* Variant: an unmatched step name resolves to the last active step.
get_current_step_index_last(s, rq) ==
    LET step_name == RequestedStep(rq)
        active == get_active_steps(s)
        hits == {i \in 1..Len(active) : active[i].name = step_name}
    IN  IF step_name # NoName /\ hits # {} THEN Min(hits) - 1
        ELSE Max2(Len(active) - 1, 0)

\* Indices are 0-based as in the code; the i-th active step is active[i + 1].
get_current_step_index(s, rq) ==
    LET step_name == RequestedStep(rq)
        active == get_active_steps(s)
        hits == {i \in 1..Len(active) : active[i].name = step_name}
    IN  IF step_name # NoName /\ hits # {} THEN Min(hits) - 1 ELSE 0

get_current_step(s, rq) ==
    LET active == get_active_steps(s)
        index == get_current_step_index(s, rq)
    IN  IF 0 <= index /\ index < Len(active) THEN active[index + 1]
        ELSE IF Len(active) > 0 THEN active[1] ELSE NoStep

is_last_step(s, rq) ==
    get_current_step_index(s, rq) >= Len(get_active_steps(s)) - 1

(***************************************************************************)
(* Form handling                                                           *)
(***************************************************************************)
NoForm == [step |-> NoName, initial |-> 0, bound |-> FALSE, data |-> 0]

\* Variant: a step that already has saved data gets no form.
get_form_once(s, rq) ==
    LET step == get_current_step(s, rq)
    IN  IF step = NoStep \/ ~step.form_class
           \/ step.name \in DOMAIN get_wizard_data(s) THEN NoForm
        ELSE [step |-> step.name,
              initial |-> get_step_data(s, step.name),
              bound |-> (rq.method = "POST"),
              data |-> IF rq.method = "POST" THEN rq.input ELSE 0]

\* get_form() with step=None, and get_form_kwargs
get_form(s, rq) ==
    LET step == get_current_step(s, rq)
    IN  IF step = NoStep \/ ~step.form_class THEN NoForm
        ELSE [step |-> step.name,
              initial |-> get_step_data(s, step.name),
              bound |-> (rq.method = "POST"),
              data |-> IF rq.method = "POST" THEN rq.input ELSE 0]

\* Variant: every bound form is accepted.
is_valid_accepts_all(form) == form.bound

\* Form.is_valid() and Form.cleaned_data of the form validator
is_valid(form) == form.bound /\ form.data \in FieldValues
cleaned_data(form) == form.data

(***************************************************************************)
(* Responses, and what a handler did                                       *)
(***************************************************************************)
NoUrl == [path |-> NoName, step |-> NoName]

\* get_step_url: f'{request.path}?step={step_name}';  get_cancel_url: '/'
get_step_url(step_name) == [path |-> WizardPath, step |-> step_name]
get_cancel_url == [path |-> "/", step |-> NoName]

NoContext ==
    [steps |-> <<>>, current_step |-> NoName, current_step_index |-> 0,
     total_steps |-> 0, is_first_step |-> FALSE, is_last_step |-> FALSE,
     progress_percent |-> 0, wizard_data |-> EmptyData, form |-> NoForm]

NoResponse == [kind |-> "none", url |-> NoUrl, context |-> NoContext]

\* What a handler leaves behind: the session, the response and the record of
\* its is_valid() calls, session writes and done() calls.
Outcome(s, resp) ==
    [session |-> s, response |-> resp,
     validated |-> <<>>, writes |-> <<>>, done_calls |-> <<>>]

Names(stepseq) == [i \in 1..Len(stepseq) |-> stepseq[i].name]

\* Variant: the divisor is the number of steps.
progress_percent_of_total(current_index, total_steps) ==
    (current_index * 100) \div Max2(total_steps, 1)

\* int((current_index / max(len(steps) - 1, 1)) * 100); the float quotient
\* truncated by int() is the integer quotient for step lists of this length.
progress_percent(current_index, total_steps) ==
    (current_index * 100) \div Max2(total_steps - 1, 1)

\* get_context_data(**kwargs); form is kwargs['form'], or NoForm when the
\* key is absent and get_form() is called.
get_context_data(s, rq, has_form, form) ==
    LET active == get_active_steps(s)
        current_index == get_current_step_index(s, rq)
        current_step == get_current_step(s, rq)
    IN  [steps |-> Names(active),
         current_step |-> current_step.name,
         current_step_index |-> current_index,
         total_steps |-> Len(active),
         is_first_step |-> (current_index = 0),
         is_last_step |-> (current_index = Len(active) - 1),
         progress_percent |-> progress_percent(current_index, Len(active)),
         wizard_data |-> get_wizard_data(s),
         form |-> IF has_form THEN form ELSE get_form(s, rq)]

render_to_response(context) ==
    [kind |-> "render", url |-> NoUrl, context |-> context]

redirect(url) == [kind |-> "redirect", url |-> url, context |-> NoContext]

\* The response of a subclass's done(wizard_data), e.g. redirect('property_detail').
DoneResponse == [kind |-> "done", url |-> NoUrl, context |-> NoContext]

\* An uncaught exception of the handler (the framework answers 500).
ErrorResponse == [kind |-> "error", url |-> NoUrl, context |-> NoContext]

\* Variant: the hook is called a second time with the same data.
done_twice(s, wizard_data) ==
    [Outcome(s, DoneResponse) EXCEPT !.done_calls = <<wizard_data, wizard_data>>]

\* self.done(wizard_data): the subclass hook is called with wizard_data.
done(s, wizard_data) ==
    [Outcome(s, DoneResponse) EXCEPT !.done_calls = <<wizard_data>>]

(***************************************************************************)
(* Navigation actions                                                      *)
(***************************************************************************)
\* Variant: the next step is taken from the declared steps.
go_next_declared(s, rq) ==
    LET active == get_active_steps(s)
        next_index == get_current_step_index(s, rq) + 1
    IN  IF next_index < Len(active)
        THEN Outcome(s, redirect(get_step_url(steps[next_index + 1].name)))
        ELSE done(s, get_wizard_data(s))

\* Variant: past the last active step the wizard starts over.
go_next_wraps(s, rq) ==
    LET active == get_active_steps(s)
        next_index == get_current_step_index(s, rq) + 1
    IN  IF next_index < Len(active)
        THEN Outcome(s, redirect(get_step_url(active[next_index + 1].name)))
        ELSE IF Len(active) > 0
        THEN Outcome(s, redirect(get_step_url(active[1].name)))
        ELSE done(s, get_wizard_data(s))

go_next(s, rq) ==
    LET active == get_active_steps(s)
        next_index == get_current_step_index(s, rq) + 1
    IN  IF next_index < Len(active)
        THEN Outcome(s, redirect(get_step_url(active[next_index + 1].name)))
        ELSE done(s, get_wizard_data(s))

\* Variant: back on the first active step goes to the last one.
go_back_wraps(s, rq) ==
    LET active == get_active_steps(s)
        prev_index == get_current_step_index(s, rq) - 1
    IN  IF prev_index >= 0
        THEN Outcome(s, redirect(get_step_url(active[prev_index + 1].name)))
        ELSE IF Len(active) > 0
        THEN Outcome(s, redirect(get_step_url(active[Len(active)].name)))
        ELSE Outcome(s, ErrorResponse)

\* steps[0] raises IndexError when there is no active step.
go_back(s, rq) ==
    LET active == get_active_steps(s)
        prev_index == get_current_step_index(s, rq) - 1
    IN  IF prev_index >= 0
        THEN Outcome(s, redirect(get_step_url(active[prev_index + 1].name)))
        ELSE IF Len(active) > 0
        THEN Outcome(s, redirect(get_step_url(active[1].name)))
        ELSE Outcome(s, ErrorResponse)

\* Variant: skip_allowed is not consulted.
skip_step_always(s, rq) ==
    LET current == get_current_step(s, rq)
    IN  IF current # NoStep
        THEN go_next(s, rq)
        ELSE Outcome(s, render_to_response(get_context_data(s, rq, FALSE, NoForm)))

\* Variant: skipping records an empty entry for the skipped step.
skip_step_marks(s, rq) ==
    LET current == get_current_step(s, rq)
    IN  IF current # NoStep /\ current.skip_allowed
        THEN go_next(save_step_data(s, current.name, 0), rq)
        ELSE Outcome(s, render_to_response(get_context_data(s, rq, FALSE, NoForm)))

skip_step(s, rq) ==
    LET current == get_current_step(s, rq)
    IN  IF current # NoStep /\ current.skip_allowed
        THEN go_next(s, rq)
        ELSE Outcome(s, render_to_response(get_context_data(s, rq, FALSE, NoForm)))

cancel(s) ==
    [Outcome(clear_wizard_data(s), redirect(get_cancel_url))
        EXCEPT !.writes = <<[op |-> "clear", step |-> NoName]>>]

(***************************************************************************)
(* HTTP methods                                                            *)
(***************************************************************************)
get(s, rq) ==
    Outcome(s, render_to_response(get_context_data(s, rq, FALSE, NoForm)))

\* Variant: the result of is_valid() is not tested.
validation_never_fails(form) == FALSE

\* if form: if not form.is_valid(): re-render
validation_failed(form) == form # NoForm /\ ~is_valid(form)

\* Variant: the finish action is not tested.
finishes_only_last(s, rq) == is_last_step(s, rq)

\* if action == 'finish' or self.is_last_step()
finishes(s, rq) == rq.action = "finish" \/ is_last_step(s, rq)

\* Variant: the next step is computed on the session as it was before the save.
submit_stale(s, rq) ==
    LET form == get_form(s, rq)
        checked == IF form # NoForm
                   THEN <<[step |-> form.step, ok |-> is_valid(form)]>> ELSE <<>>
    IN  IF validation_failed(form)
        THEN [Outcome(s, render_to_response(get_context_data(s, rq, TRUE, form)))
                EXCEPT !.validated = checked]
        ELSE LET saved == IF form # NoForm
                          THEN save_step_data(s, get_current_step(s, rq).name,
                                              cleaned_data(form))
                          ELSE s
                 wrote == IF form # NoForm
                          THEN <<[op |-> "save", step |-> get_current_step(s, rq).name]>>
                          ELSE <<>>
                 rest == IF finishes(saved, rq)
                         THEN done(saved, get_wizard_data(saved))
                         ELSE [go_next(s, rq) EXCEPT !.session = saved]
             IN  [rest EXCEPT !.validated = checked, !.writes = wrote \o @]

\* Lines 200-214 of post: validate the current step, save, go on or finish.
submit(s, rq) ==
    LET form == get_form(s, rq)
        checked == IF form # NoForm
                   THEN <<[step |-> form.step, ok |-> is_valid(form)]>> ELSE <<>>
    IN  IF validation_failed(form)
        THEN [Outcome(s, render_to_response(get_context_data(s, rq, TRUE, form)))
                EXCEPT !.validated = checked]
        ELSE LET saved == IF form # NoForm
                          THEN save_step_data(s, get_current_step(s, rq).name,
                                              cleaned_data(form))
                          ELSE s
                 wrote == IF form # NoForm
                          THEN <<[op |-> "save", step |-> get_current_step(s, rq).name]>>
                          ELSE <<>>
                 rest == IF finishes(saved, rq)
                         THEN done(saved, get_wizard_data(saved))
                         ELSE go_next(saved, rq)
             IN  [rest EXCEPT !.validated = checked, !.writes = wrote \o @]

post(s, rq) ==
    IF rq.action = "cancel" THEN cancel(s)
    ELSE IF rq.action = "back" THEN go_back(s, rq)
    ELSE IF rq.action = "skip" THEN skip_step(s, rq)
    ELSE submit(s, rq)

(***************************************************************************)
(* Requests                                                                *)
(***************************************************************************)
StepParams == DeclaredNames \cup {NoName}

NoRequest ==
    [method |-> "none", action |-> NoName, qstep |-> NoName, cstep |-> NoName,
     input |-> Invalid]

\* GET ?step=<qstep>: request.POST is empty.
GetRequests ==
    [method : {"GET"}, action : {NoName}, qstep : StepParams, cstep : {NoName},
     input : {Invalid}]

\* POST ?step=<qstep> with wizard_action (absent reads as 'next'), current_step
\* and the form field.
PostRequests ==
    [method : {"POST"}, action : {"next", "back", "skip", "cancel", "finish"},
     qstep : StepParams, cstep : StepParams, input : {Invalid} \cup FieldValues]

(***************************************************************************)
(* Wizard declarations                                                     *)
(***************************************************************************)
Declare(n, forms, skips, conds) ==
    [i \in 1..n |-> WizardStep(StepNames[i], forms[i], skips[i], conds[i])]

\* The conditions of a declaration of n steps: at most one step is
\* conditional; its condition reads a step that has a form (a step without
\* a form never has data) and is not "eq" on the step's own data (such a
\* step can never be shown).
ConditionChoices(n, forms) ==
    LET refs == {StepNames[i] : i \in {j \in 1..n : forms[j]}}
        conds == {NoCondition} \cup [kind : {"eq", "ne"}, ref : refs, val : {1}]
    IN  {c \in [1..n -> conds] :
            /\ Cardinality({i \in 1..n : c[i] # NoCondition}) <= 1
            /\ \A i \in 1..n : ~(c[i].kind = "eq" /\ c[i].ref = StepNames[i])}

\* The declarations of n steps: fewer than Len(StepNames) steps have a form
\* (the others are confirmation steps, form_class=None), skip_allowed is the
\* default (False) on every step or True on every step.
DeclarationsOfLength(n) ==
    UNION {{Declare(n, f, k, c) :
               k \in {[i \in 1..n |-> FALSE], [i \in 1..n |-> TRUE]},
               c \in ConditionChoices(n, f)} :
           f \in {g \in [1..n -> BOOLEAN] :
                     Cardinality({i \in 1..n : g[i]}) < Len(StepNames)}}

\* From the class default steps = [] to Len(StepNames) steps.
Declarations == UNION {DeclarationsOfLength(n) : n \in 0..Len(StepNames)}

(***************************************************************************)
(* Actions                                                                 *)
(***************************************************************************)
\* No session helper was called directly.
NoCall == [op |-> "none", step |-> NoName, data |-> EmptyData]

Init ==
    /\ steps \in Declarations
    /\ session = [k \in {} |-> EmptyData]
    /\ passed = {}
    /\ pc = "idle"
    /\ request = NoRequest
    /\ pre = session
    /\ validated = <<>>
    /\ writes = <<>>
    /\ done_calls = <<>>
    /\ response = NoResponse
    /\ wizard_name = DefaultWizardName
    /\ call = NoCall
    /\ submitted = EmptyData
    /\ seen = EmptyData
    /\ store = EmptyData
    /\ workers = EmptyData

Passed(calls) == {calls[i].step : i \in {j \in 1..Len(calls) : calls[j].ok}}

\* The handler ran to completion with outcome o.  A subclass's done() may
\* call clear_wizard_data() before it returns (the documented usage does).
Handled(rq, o) ==
    /\ pc' = "handled"
    /\ request' = rq
    /\ pre' = session
    /\ validated' = o.validated
    /\ writes' = o.writes
    /\ done_calls' = o.done_calls
    /\ response' = o.response
    /\ \E clears \in IF o.done_calls = <<>> THEN {FALSE} ELSE BOOLEAN :
          session' = IF clears THEN clear_wizard_data(o.session) ELSE o.session
    /\ passed' = IF session_key \in DOMAIN session'
                 THEN passed \cup Passed(o.validated) ELSE {}
    /\ UNCHANGED steps

Get ==
    /\ pc = "idle"
    /\ \E rq \in GetRequests : Handled(rq, get(session, rq))
    /\ UNCHANGED aux

Post ==
    /\ pc = "idle"
    /\ \E rq \in PostRequests : Handled(rq, post(session, rq))
    /\ UNCHANGED aux

\* The response is returned and the view instance is dropped.
Respond ==
    /\ pc = "handled"
    /\ pc' = "idle"
    /\ request' = NoRequest
    /\ pre' = session
    /\ validated' = <<>>
    /\ writes' = <<>>
    /\ done_calls' = <<>>
    /\ response' = NoResponse
    /\ UNCHANGED <<steps, session, passed>>
    /\ UNCHANGED aux

Next == Get \/ Post \/ Respond

Spec == Init /\ [][Next]_vars

(***************************************************************************)
(* The session helpers called directly, on entries of several fields       *)
(***************************************************************************)
\* The field names of a form, and the cleaned_data mappings over them.
FieldNames == {"f", "g"}
Entries == UNION {[F -> FieldValues] : F \in SUBSET FieldNames}

\* The step names the helpers are called with.
StoreNames == {StepNames[1], StepNames[2]}

\* A key of the session that is not a wizard's (django.contrib.auth's).
AuthKey == "_auth_user_id"

StoreInit ==
    /\ steps = <<>>
    /\ session = [k \in {AuthKey} |-> "1"]
    /\ passed = {}
    /\ pc = "idle"
    /\ request = NoRequest
    /\ pre = session
    /\ validated = <<>>
    /\ writes = <<>>
    /\ done_calls = <<>>
    /\ response = NoResponse
    /\ wizard_name = DefaultWizardName
    /\ call = NoCall
    /\ submitted = EmptyData
    /\ seen = EmptyData
    /\ store = EmptyData
    /\ workers = EmptyData

Called(c, s) ==
    /\ call' = c
    /\ pre' = session
    /\ session' = s
    /\ UNCHANGED <<steps, passed, pc, request, validated, writes, done_calls,
                   response, wizard_name, submitted, seen, store, workers>>

CallSaveStepData ==
    \E step_name \in StoreNames, data \in Entries :
        Called([op |-> "save_step_data", step |-> step_name, data |-> data],
               save_step_data(session, step_name, data))

CallClearWizardData ==
    Called([op |-> "clear_wizard_data", step |-> NoName, data |-> EmptyData],
           clear_wizard_data(session))

StoreNext == CallSaveStepData \/ CallClearWizardData

StoreSpec == StoreInit /\ [][StoreNext]_vars

(***************************************************************************)
(* Requests with the record of each step's last valid submit               *)
(***************************************************************************)
\* Wizards of two steps, skip_allowed left at its default.
RoundTripDeclarations ==
    {d \in DeclarationsOfLength(2) : \A i \in 1..Len(d) : ~d[i].skip_allowed}

RoundTripInit ==
    /\ steps \in RoundTripDeclarations
    /\ session = [k \in {} |-> EmptyData]
    /\ passed = {}
    /\ pc = "idle"
    /\ request = NoRequest
    /\ pre = session
    /\ validated = <<>>
    /\ writes = <<>>
    /\ done_calls = <<>>
    /\ response = NoResponse
    /\ wizard_name = DefaultWizardName
    /\ call = NoCall
    /\ submitted = EmptyData
    /\ seen = EmptyData
    /\ store = EmptyData
    /\ workers = EmptyData

\* The record after a request with outcome o: cancel empties it, a valid
\* submit puts the cleaned data under the step it was saved for.
Submitted(rq, o) ==
    IF rq.action = "cancel" THEN EmptyData
    ELSE IF o.writes # <<>> /\ o.writes[1].op = "save"
    THEN [n \in DOMAIN submitted \cup {o.writes[1].step} |->
            IF n = o.writes[1].step THEN rq.input ELSE submitted[n]]
    ELSE submitted

TrackedGet ==
    /\ pc = "idle"
    /\ \E rq \in GetRequests : Handled(rq, get(session, rq))
    /\ UNCHANGED aux

TrackedPost ==
    /\ pc = "idle"
    /\ \E rq \in PostRequests :
          /\ Handled(rq, post(session, rq))
          /\ submitted' = Submitted(rq, post(session, rq))
    /\ UNCHANGED <<wizard_name, call, seen, store, workers>>

RoundTripNext == TrackedGet \/ TrackedPost \/ Respond

RoundTripSpec == RoundTripInit /\ [][RoundTripNext]_vars

(***************************************************************************)
(* Two wizards in one session                                              *)
(***************************************************************************)
\* Two NitroWizard subclasses: one keeps the default wizard_name, the other
\* sets its own.  Both name their steps A and B.
WizardNames == {DefaultWizardName, "signup"}

WizardClasses ==
    [w \in WizardNames |->
        IF w = DefaultWizardName
        THEN <<WizardStep("A", TRUE, TRUE, NoCondition),
               WizardStep("B", TRUE, TRUE, [kind |-> "ne", ref |-> "A", val |-> 1])>>
        ELSE <<WizardStep("A", TRUE, FALSE, NoCondition),
               WizardStep("B", FALSE, FALSE, NoCondition)>>]

SharedInit ==
    /\ steps = WizardClasses[DefaultWizardName]
    /\ session = [k \in {} |-> EmptyData]
    /\ passed = {}
    /\ pc = "idle"
    /\ request = NoRequest
    /\ pre = session
    /\ validated = <<>>
    /\ writes = <<>>
    /\ done_calls = <<>>
    /\ response = NoResponse
    /\ wizard_name = DefaultWizardName
    /\ call = NoCall
    /\ submitted = EmptyData
    /\ seen = [w \in WizardNames |-> EmptyData]
    /\ store = EmptyData
    /\ workers = EmptyData

\* The URL resolver hands the next request to a view instance of class w.
Dispatch ==
    /\ pc = "idle"
    /\ \E w \in WizardNames :
          /\ wizard_name' = w
          /\ steps' = WizardClasses[w]
    /\ UNCHANGED <<session, passed, pc, request, pre, validated, writes,
                   done_calls, response, call, submitted, seen, store, workers>>

\* The wizard data the handling wizard is left with.
Seen == [seen EXCEPT ![wizard_name] = get_wizard_data(session')]

SharedGet ==
    /\ pc = "idle"
    /\ \E rq \in GetRequests : Handled(rq, get(session, rq))
    /\ seen' = Seen
    /\ UNCHANGED <<wizard_name, call, submitted, store, workers>>

SharedPost ==
    /\ pc = "idle"
    /\ \E rq \in PostRequests : Handled(rq, post(session, rq))
    /\ seen' = Seen
    /\ UNCHANGED <<wizard_name, call, submitted, store, workers>>

SharedNext == Dispatch \/ SharedGet \/ SharedPost \/ Respond

SharedSessionSpec == SharedInit /\ [][SharedNext]_vars

(***************************************************************************)
(* The progress shown for longer step lists                                *)
(***************************************************************************)
ProgressInit ==
    /\ steps = <<>>
    /\ session = [k \in {} |-> EmptyData]
    /\ passed = {}
    /\ pc = "idle"
    /\ request = NoRequest
    /\ pre = session
    /\ validated = <<>>
    /\ writes = <<>>
    /\ done_calls = <<>>
    /\ response = NoResponse
    /\ wizard_name = DefaultWizardName
    /\ call = NoCall
    /\ submitted = EmptyData
    /\ seen = EmptyData
    /\ store = EmptyData
    /\ workers = EmptyData

\* get_context_data on total_steps active steps; the index
\* get_current_step_index returns is that of an active step, or 0.
RenderProgress ==
    /\ \E total_steps \in 0..MaxSteps :
          \E current_index \in 0..Max2(total_steps - 1, 0) :
             call' = [op |-> "progress_percent", step |-> NoName,
                      data |-> [current_index |-> current_index,
                                total_steps |-> total_steps,
                                progress_percent |->
                                    progress_percent(current_index, total_steps)]]
    /\ UNCHANGED <<steps, session, passed, pc, request, pre, validated, writes,
                   done_calls, response, wizard_name, submitted, seen, store,
                   workers>>

ProgressNext == RenderProgress

ProgressSpec == ProgressInit /\ [][ProgressNext]_vars

(***************************************************************************)
(* Two requests of one session inside save_step_data at the same time      *)
(***************************************************************************)
\* The sessions of the backend; the racing requests are both of the first.
RacingSession == "s1"
OtherSession == "s2"
Racing == 1..2

\* What the other session holds.
OtherStored == [k \in {"wizard_wizard"} |-> [n \in {"A"} |-> 2]]

NotInside ==
    [pc |-> "start", step |-> NoName, input |-> Invalid, wizard_data |-> EmptyData]

ConcurrentInit ==
    /\ steps = <<>>
    /\ session = [k \in {} |-> EmptyData]
    /\ passed = {}
    /\ pc = "idle"
    /\ request = NoRequest
    /\ pre = session
    /\ validated = <<>>
    /\ writes = <<>>
    /\ done_calls = <<>>
    /\ response = NoResponse
    /\ wizard_name = DefaultWizardName
    /\ call = NoCall
    /\ submitted = EmptyData
    /\ seen = EmptyData
    /\ \E stored \in {[k \in {} |-> EmptyData],
                      [k \in {"wizard_wizard"} |-> [n \in {"C"} |-> 1]]} :
          store = [sid \in {RacingSession, OtherSession} |->
                      IF sid = RacingSession THEN stored ELSE OtherStored]
    /\ workers = [r \in Racing |-> NotInside]

\* wizard_data[step_name] = data
StepWritten(wizard_data, step_name, data) ==
    [n \in DOMAIN wizard_data \cup {step_name} |->
        IF n = step_name THEN data ELSE wizard_data[n]]

\* wizard_data = self.get_wizard_data()
ReadWizardData(r) ==
    /\ workers[r].pc = "start"
    /\ \E step_name \in StoreNames, input \in FieldValues :
          workers' = [workers EXCEPT ![r] =
                         [pc |-> "read", step |-> step_name, input |-> input,
                          wizard_data |-> get_wizard_data(store[RacingSession])]]
    /\ UNCHANGED <<steps, session, passed, pc, request, pre, validated, writes,
                   done_calls, response, wizard_name, call, submitted, seen, store>>

\* wizard_data[step_name] = data; self.save_wizard_data(wizard_data)
WriteWizardData(r) ==
    /\ workers[r].pc = "read"
    /\ LET w == workers[r]
           written == StepWritten(w.wizard_data, w.step, w.input)
       IN  /\ store' = [store EXCEPT ![RacingSession] = save_wizard_data(@, written)]
           /\ call' = [op |-> "save_wizard_data", step |-> w.step,
                       data |-> [worker |-> r, wizard_data |-> written]]
    /\ workers' = [workers EXCEPT ![r].pc = "written"]
    /\ UNCHANGED <<steps, session, passed, pc, request, pre, validated, writes,
                   done_calls, response, wizard_name, submitted, seen>>

ConcurrentNext == \E r \in Racing : ReadWizardData(r) \/ WriteWizardData(r)

ConcurrentSpec == ConcurrentInit /\ [][ConcurrentNext]_vars

(***************************************************************************)
(* Table cells: get_field_value (tables.py) and table_cell (nitro_tags.py) *)
(***************************************************************************)
\* Python values: None, a plain value, a callable with what calling it
\* gives (a plain value, None, or an exception), and an object with
\* attributes.
None == [kind |-> "None"]
Plain(v) == [kind |-> "plain", v |-> v]
Raised == [kind |-> "raised"]
Callable(result) == [kind |-> "callable", result |-> result]
Object(attrs) == [kind |-> "object", attrs |-> attrs]

AttrNames == {"a", "b"}
PlainValues == {Plain(v) : v \in FieldValues}
LeafValues ==
    {None} \cup PlainValues
    \cup {Callable(r) : r \in {None, Raised} \cup PlainValues}

\* The objects with attributes from AttrNames whose values are in values.
ObjectsOver(values) ==
    UNION {{Object(f) : f \in [names -> values]} : names \in SUBSET AttrNames}

\* Model instances, with related instances one level down.
Instances == ObjectsOver(LeafValues \cup ObjectsOver(LeafValues))

\* field_path.split('.') of the paths of one to three attribute names.
FieldPaths == UNION {[1..n -> AttrNames] : n \in 1..3}

\* getattr(value, attr, None)
getattr(value, attr) ==
    IF value.kind = "object" /\ attr \in DOMAIN value.attrs
    THEN value.attrs[attr] ELSE None

\* The loop of get_field_value over the remaining attribute names.
RECURSIVE Traverse(_, _)
Traverse(value, attrs) ==
    IF attrs = <<>> THEN value
    ELSE IF value = None THEN None
    ELSE Traverse(getattr(value, Head(attrs)), Tail(attrs))

\* Variant: a callable final value is returned as it is.
get_field_value_uncalled(obj, field_path) == Traverse(obj, field_path)

get_field_value(obj, field_path) ==
    LET value == Traverse(obj, field_path)
    IN  IF value.kind = "callable" THEN value.result ELSE value

\* Column(field=..., display=...)
Column(field, display) == [field |-> field, display |-> display]
Displays == {"", "status_badge"}

\* The cell: the placeholder span, or the value put through the column's
\* display filter ('' is escape(str(value))); an exception propagates.
Placeholder == [kind |-> "placeholder", display |-> "", value |-> None]
table_cell(obj, column) ==
    LET value == get_field_value(obj, column.field)
    IN  IF value = None THEN Placeholder
        ELSE IF value = Raised THEN [kind |-> "raised", display |-> "", value |-> Raised]
        ELSE [kind |-> "text", display |-> column.display, value |-> value]

TableInit ==
    /\ steps = <<>>
    /\ session = [k \in {} |-> EmptyData]
    /\ passed = {}
    /\ pc = "idle"
    /\ request = NoRequest
    /\ pre = session
    /\ validated = <<>>
    /\ writes = <<>>
    /\ done_calls = <<>>
    /\ response = NoResponse
    /\ wizard_name = DefaultWizardName
    /\ \E obj \in Instances \cup {None}, field \in FieldPaths, display \in Displays :
          call = [op |-> "template", step |-> NoName,
                  data |-> [obj |-> obj, column |-> Column(field, display)]]
    /\ submitted = EmptyData
    /\ seen = EmptyData
    /\ store = EmptyData
    /\ workers = EmptyData

\* {{ obj|table_cell:column }}
RenderCell ==
    /\ call.op = "template"
    /\ LET obj == call.data.obj
           column == call.data.column
       IN  call' = [op |-> "table_cell", step |-> NoName,
                    data |-> [obj |-> obj, column |-> column,
                              value |-> get_field_value(obj, column.field),
                              cell |-> table_cell(obj, column)]]
    /\ UNCHANGED <<steps, session, passed, pc, request, pre, validated, writes,
                   done_calls, response, wizard_name, submitted, seen, store,
                   workers>>

TableNext == RenderCell

TableSpec == TableInit /\ [][TableNext]_vars

(***************************************************************************)
(* Views and mixins (mixins.py, views.py)                                  *)
(*                                                                         *)
(* Each of the specifications below draws a view, the stored objects and   *)
(* one request in its initial state (`call`, op "request") and handles the *)
(* request in one step, which records what was stored, what was called    *)
(* and the response.  The wizard's variables stay at rest.                 *)
(***************************************************************************)
AtRest ==
    /\ steps = <<>>
    /\ session = [k \in {} |-> EmptyData]
    /\ passed = {}
    /\ pc = "idle"
    /\ request = NoRequest
    /\ pre = session
    /\ validated = <<>>
    /\ writes = <<>>
    /\ done_calls = <<>>
    /\ response = NoResponse
    /\ wizard_name = DefaultWizardName
    /\ submitted = EmptyData
    /\ seen = EmptyData
    /\ store = EmptyData
    /\ workers = EmptyData

wizard_vars ==
    <<steps, session, passed, pc, request, pre, validated, writes, done_calls,
      response, wizard_name, submitted, seen, store, workers>>

Pending(data) == [op |-> "request", step |-> NoName, data |-> data]
Served(op, data) == [op |-> op, step |-> NoName, data |-> data]

(***************************************************************************)
(* OrganizationMixin (mixins.py)                                           *)
(***************************************************************************)
\* Most rows of the model's table.
MaxRows == 3

org_field == "company"

\* What get_organization() can return: an organization, or None for a user
\* without one.
OrganizationValues == {Plain(1), Plain(2), None}

\* Model classes by their attributes.
Model(attrs) == [kind |-> "model", attrs |-> attrs]

hasattr(obj, attr) == obj # None /\ attr \in obj.attrs

\* super().get_queryset(): rows with distinct primary keys.  A view without
\* a model takes its rows from elsewhere; they carry the org_field.
Row(pk, model, company) ==
    [f \in (IF model = None THEN {"pk", org_field} ELSE model.attrs) |->
        IF f = "pk" THEN pk ELSE company]
QuerySets(model) ==
    UNION {{ {Row(pk, model, companies[pk]) : pk \in 1..n} :
                companies \in [1..n -> OrganizationValues]} : n \in 0..MaxRows}

\* qs.filter(**{field: value})
filter(qs, field, value) == {row \in qs : row[field] = value}

\* self.organization: get_organization(), called once per view instance.
organization(view) == view.get_organization

filter_by_organization(view, qs) ==
    LET org == organization(view)
    IN  IF org = None THEN qs
        ELSE IF view.model # None /\ hasattr(view.model, org_field)
        THEN filter(qs, org_field, org)
        ELSE qs

get_queryset(view, qs) == filter_by_organization(view, qs)

\* The views: on a model with the org_field, on one without it, and without
\* a model; get_organization() as the subclass implements it.
OrganizationInit ==
    /\ AtRest
    /\ \E model \in {Model({"pk", org_field}), Model({"pk"}), None},
          org \in OrganizationValues :
          \E qs \in QuerySets(model) :
             call = Pending([view |-> [model |-> model, get_organization |-> org],
                             qs |-> qs])

\* self.get_queryset() of a view that uses OrganizationMixin
GetQueryset ==
    /\ call.op = "request"
    /\ call' = Served("get_queryset",
                      [view |-> call.data.view, qs |-> call.data.qs,
                       result |-> get_queryset(call.data.view, call.data.qs)])
    /\ UNCHANGED wizard_vars

OrganizationNext == GetQueryset

OrganizationSpec == OrganizationInit /\ [][OrganizationNext]_vars

(***************************************************************************)
(* PermissionMixin (mixins.py)                                             *)
(***************************************************************************)
\* (module, action) tuples
Permissions == {"properties", "leases"} \X {"view_all", "edit"}

\* required_permission: a (module, action) tuple or None.
RequiredPermissions == {None} \cup {Plain(p) : p \in Permissions}

\* check_permission as a subclass implements it: the user holds a set of
\* (module, action) permissions.
check_permission(view, module, action) == <<module, action>> \in view.granted

\* What a dispatch did: the handlers it ran, and the exception or response
\* it ended with.
Dispatched(handlers, raised, resp) ==
    [handlers |-> handlers, raised |-> raised, response |-> resp]
NotRaised == ""
PermissionDenied == "PermissionDenied"

\* super().dispatch(request): the handler named by the request method runs
\* and its response is returned.
handler(method) == IF method = "GET" THEN "get" ELSE "post"
super_dispatch(view, method) ==
    Dispatched(<<handler(method)>>, NotRaised, handler(method))

\* require_permission(module, action), followed by what dispatch goes on
\* with when it returns.
require_permission(view, module, action, continuation) ==
    IF ~check_permission(view, module, action)
    THEN Dispatched(<<>>, PermissionDenied, "")
    ELSE continuation

\* Variant: the handler runs first and the permission is checked on its
\* response.
dispatch_checks_after(view, method) ==
    LET handled == super_dispatch(view, method)
        required == view.required_permission
    IN  IF required # None /\ ~check_permission(view, required.v[1], required.v[2])
        THEN Dispatched(handled.handlers, PermissionDenied, "")
        ELSE handled

dispatch(view, method) ==
    IF view.required_permission # None
    THEN LET module == view.required_permission.v[1]
             action == view.required_permission.v[2]
         IN  require_permission(view, module, action, super_dispatch(view, method))
    ELSE super_dispatch(view, method)

PermissionInit ==
    /\ AtRest
    /\ \E required \in RequiredPermissions, granted \in SUBSET Permissions,
          method \in {"GET", "POST"} :
          call = Pending([view |-> [required_permission |-> required,
                                    granted |-> granted],
                          method |-> method])

\* view.dispatch(request) of a view that uses PermissionMixin
CheckedDispatch ==
    /\ call.op = "request"
    /\ call' = Served("dispatch",
                      [view |-> call.data.view, method |-> call.data.method,
                       result |-> dispatch(call.data.view, call.data.method)])
    /\ UNCHANGED wizard_vars

PermissionNext == CheckedDispatch

PermissionSpec == PermissionInit /\ [][PermissionNext]_vars

(***************************************************************************)
(* NitroDeleteView (views.py)                                              *)
(***************************************************************************)
soft_delete_field == "is_active"

\* The stored objects of the model, by primary key.
ObjectTables ==
    UNION {[pks -> [is_active : BOOLEAN, name : {"x", "y"}]] :
              pks \in SUBSET (1..2)}

\* An HTTP response: status, the showToast entry of HX-Trigger, and the
\* HX-Redirect and HX-Refresh headers ("" when the header is not set).
NoHeader == ""
NoToast == [message |-> "", type |-> ""]
Toast(message, level) == [message |-> message, type |-> level]
HttpResponse(status, toast_, hx_redirect, hx_refresh) ==
    [status |-> status, toast |-> toast_, redirect |-> hx_redirect,
     refresh |-> hx_refresh]
Http404 == HttpResponse(404, NoToast, NoHeader, NoHeader)

\* can_delete(obj): (True, None) or (False, message), as the subclass
\* decides.
CanDeleteResults == {<<TRUE, "">>, <<FALSE, "in use">>, <<FALSE, "locked">>}
can_delete(view, obj) == view.can_delete

get_success_message(view) == "deleted"

\* Variant: the row is removed whatever soft_delete says.
perform_delete_hard(view, table, pk) ==
    [k \in DOMAIN table \ {pk} |-> table[k]]

\* perform_delete(obj), on the table that holds obj under pk
perform_delete(view, table, pk) ==
    IF view.soft_delete
    THEN [table EXCEPT ![pk][soft_delete_field] = FALSE]
    ELSE [k \in DOMAIN table \ {pk} |-> table[k]]

\* NitroDeleteView.post(request, pk): the table afterwards and the response
NitroDeleteView_post(view, table, pk) ==
    IF pk \notin DOMAIN table
    THEN [table |-> table, response |-> Http404]
    ELSE LET obj == table[pk]
             can == can_delete(view, obj)[1]
             error == can_delete(view, obj)[2]
         IN  IF ~can
             THEN [table |-> table,
                   response |-> HttpResponse(204, Toast(error, "error"),
                                             NoHeader, NoHeader)]
             ELSE [table |-> perform_delete(view, table, pk),
                   response |->
                       HttpResponse(204, Toast(get_success_message(view), "success"),
                                    IF view.redirect_url # NoHeader
                                    THEN view.redirect_url ELSE NoHeader,
                                    IF view.redirect_url # NoHeader
                                    THEN NoHeader ELSE "true")]

DeleteInit ==
    /\ AtRest
    /\ \E can \in CanDeleteResults, soft_delete \in BOOLEAN,
          redirect_url \in {NoHeader, "/list/"}, table \in ObjectTables,
          pk \in 1..2 :
          call = Pending([view |-> [can_delete |-> can, soft_delete |-> soft_delete,
                                    redirect_url |-> redirect_url],
                          table |-> table, pk |-> pk])

\* POST to a NitroDeleteView
DeletePost ==
    /\ call.op = "request"
    /\ LET done_ == NitroDeleteView_post(call.data.view, call.data.table, call.data.pk)
       IN  call' = Served("delete",
                          [view |-> call.data.view, table |-> call.data.table,
                           pk |-> call.data.pk, stored |-> done_.table,
                           response |-> done_.response])
    /\ UNCHANGED wizard_vars

DeleteNext == DeletePost

DeleteSpec == DeleteInit /\ [][DeleteNext]_vars

(***************************************************************************)
(* NitroListView: bulk actions and sorting (views.py)                      *)
(***************************************************************************)
\* NitroView.toast(message, level) and NitroView.htmx_refresh()
toast(message, level) == HttpResponse(204, Toast(message, level), NoHeader, NoHeader)
htmx_refresh == HttpResponse(204, NoToast, NoHeader, "true")

\* Action names: of BulkAction entries, of handle_bulk_<name> methods and
\* of the bulk_action POST field ("" when the field is absent or empty).
ActionNames == {"activate", "delete"}

\* request.POST.getlist('selected_ids')
SelectedIds == {<<>>, <<1>>, <<2>>, <<1, 2>>, <<3>>}
Range(s) == {s[i] : i \in DOMAIN s}


\* {a.name for a in self.bulk_actions}
valid_actions(view) == view.bulk_actions

\* getattr(self, f'handle_bulk_{action}', None) is not None
has_handler(view, action) == action \in view.handlers

\* A call of handle_bulk_<action>(qs, selected_ids)
HandlerCall(action, qs, selected_ids) ==
    [name |-> action, qs |-> qs, selected_ids |-> selected_ids]

\* self.get_queryset().filter(pk__in=selected_ids), on a table that holds
\* the rows 1 and 2
SelectedRows(selected_ids) == (1..2) \cap Range(selected_ids)

\* The try block of post: the handler runs, and its result or exception
\* decides the response.
RunHandler(view, action, selected_ids) ==
    [handlers |-> <<HandlerCall(action, SelectedRows(selected_ids), selected_ids)>>,
     response |->
        IF view.result = "HttpResponse"
        THEN HttpResponse(200, NoToast, NoHeader, NoHeader)
        ELSE IF view.result = "None" THEN htmx_refresh
        ELSE toast("Error", "error")]

NotRun(resp) == [handlers |-> <<>>, response |-> resp]

\* Variant: any action with a handler method runs, declared or not.
NitroListView_post_any_handler(view, action, selected_ids) ==
    IF action = "" \/ selected_ids = <<>>
    THEN NotRun(toast("Selecciona al menos un elemento", "warning"))
    ELSE IF ~has_handler(view, action)
    THEN NotRun(toast("Sin handler", "error"))
    ELSE RunHandler(view, action, selected_ids)

\* NitroListView.post(request): the handlers called and the response
NitroListView_post(view, action, selected_ids) ==
    IF action = "" \/ selected_ids = <<>>
    THEN NotRun(toast("Selecciona al menos un elemento", "warning"))
    ELSE IF action \notin valid_actions(view)
    THEN NotRun(toast("Accion no valida", "error"))
    ELSE IF ~has_handler(view, action)
    THEN NotRun(toast("Sin handler", "error"))
    ELSE RunHandler(view, action, selected_ids)

\* The views: the declared bulk_actions, the handle_bulk_<name> methods
\* defined, and what a handler does (returns None, returns an HttpResponse,
\* or raises).
BulkInit ==
    /\ AtRest
    /\ \E declared \in SUBSET ActionNames, handlers \in SUBSET ActionNames,
          result \in {"None", "HttpResponse", "Exception"}, action \in ActionNames \cup {""},
          selected_ids \in SelectedIds :
          call = Pending([view |-> [bulk_actions |-> declared, handlers |-> handlers,
                                    result |-> result],
                          bulk_action |-> action, selected_ids |-> selected_ids])

\* POST to a NitroListView
BulkPost ==
    /\ call.op = "request"
    /\ LET d == call.data
           out == NitroListView_post(d.view, d.bulk_action, d.selected_ids)
       IN  call' = Served("bulk",
                          [view |-> d.view, bulk_action |-> d.bulk_action,
                           selected_ids |-> d.selected_ids,
                           handlers |-> out.handlers, response |-> out.response])
    /\ UNCHANGED wizard_vars

BulkNext == BulkPost

BulkSpec == BulkInit /\ [][BulkNext]_vars

\* Longest ?sort= value.
MaxSort == 3

\* Strings are sequences of characters.
SortValues == UNION {[1..n -> {"-", " ", "a", "b"}] : n \in 0..MaxSort}

\* str.lstrip(chars), str.rstrip() and str.strip()
RECURSIVE lstrip(_, _)
lstrip(s, chars) ==
    IF s # <<>> /\ Head(s) \in chars THEN lstrip(Tail(s), chars) ELSE s
RECURSIVE rstrip(_, _)
rstrip(s, chars) ==
    IF s # <<>> /\ s[Len(s)] \in chars
    THEN rstrip(SubSeq(s, 1, Len(s) - 1), chars) ELSE s
strip(s) == rstrip(lstrip(s, {" "}), {" "})

\* qs.order_by(ordering), and the queryset left as it is
OrderBy(ordering) == [ordered |-> TRUE, by |-> ordering]
Unordered == [ordered |-> FALSE, by |-> <<>>]

\* NitroListView.apply_sort(qs), with sort_param = request.GET.get('sort', '')
apply_sort(view, sort_param) ==
    LET sort == strip(sort_param)
        field_name == lstrip(sort, {"-"})
    IN  IF sort # <<>> /\ field_name \in view.sortable_fields
        THEN OrderBy(sort)
        ELSE IF view.default_sort # <<>>
        THEN OrderBy(view.default_sort)
        ELSE Unordered

SortInit ==
    /\ AtRest
    /\ \E sortable_fields \in SUBSET {<<"a">>, <<"b">>},
          default_sort \in {<<>>, <<"-", "b">>}, sort_param \in SortValues :
          call = Pending([view |-> [sortable_fields |-> sortable_fields,
                                    default_sort |-> default_sort],
                          sort |-> sort_param])

\* GET of a NitroListView with ?sort=
ApplySort ==
    /\ call.op = "request"
    /\ call' = Served("apply_sort",
                      [view |-> call.data.view, sort |-> call.data.sort,
                       result |-> apply_sort(call.data.view, call.data.sort)])
    /\ UNCHANGED wizard_vars

SortNext == ApplySort

SortSpec == SortInit /\ [][SortNext]_vars

(***************************************************************************)
(* NitroInlineEditView (views.py)                                          *)
(***************************************************************************)
\* Python values of a field: str, int, Decimal (by its digits) and None.
Str(s) == [kind |-> "str", v |-> s]
Int_(n) == [kind |-> "int", v |-> n]
Decimal(s) == [kind |-> "Decimal", v |-> s]

\* str(value), as a sequence of characters
Digits == <<"0", "1", "2", "3", "4", "5", "6", "7", "8", "9">>
str(value) ==
    IF value = None THEN <<"N", "o", "n", "e">>
    ELSE IF value.kind = "int" THEN <<Digits[value.v + 1]>>
    ELSE value.v

\* Decimal(s) raises InvalidOperation unless s is digits with at most one
\* point.
InvalidOperation(s) ==
    \/ \A i \in DOMAIN s : s[i] = "."
    \/ \E i \in DOMAIN s : s[i] \notin Range(Digits) \cup {"."}
    \/ Cardinality({i \in DOMAIN s : s[i] = "."}) > 1

\* The fields of the model, and the object as stored.
EditFields == {"status", "name", "secret"}
EditTables == {[pk \in pks |-> [f \in EditFields |-> Str(<<"x">>)]] : pks \in {{}, {1}}}

\* editable_fields: {field_name: {type, choices?}}; choices are given by
\* their values, and an empty set is a config without choices.
EditableFields ==
    UNION {[names -> [type : {"text", "number"},
                      choices : {{}, {Str(<<"x">>), Str(<<"y">>)}, {Int_(1), Int_(2)}}]] :
              names \in SUBSET {"status", "name"}}

\* request.POST.get('value', '')
PostedValues ==
    {<<>>, <<"x">>, <<" ", "y", " ">>, <<"z">>, <<"1">>, <<"1", ".", "0">>, <<"3">>}

\* _error_response(message), and the response that carries the updated cell
error_response == HttpResponse(422, Toast("error", "error"), NoHeader, NoHeader)
inline_cell == HttpResponse(200, Toast("Actualizado", "success"), NoHeader, NoHeader)

\* The value after the type conversion of post
Converted(config, new_value) ==
    IF config.type = "number"
    THEN IF new_value # <<>> THEN Decimal(new_value) ELSE None
    ELSE Str(new_value)

\* valid_values = [str(c[0]) for c in config['choices']]
valid_values(config) == {str(c) : c \in config.choices}

\* Variant: the choices of the field are not consulted.
NitroInlineEditView_post_any_value(view, table, pk, field, value) ==
    IF field \notin DOMAIN view.editable_fields
    THEN [table |-> table, response |-> HttpResponse(400, NoToast, NoHeader, NoHeader)]
    ELSE IF pk \notin DOMAIN table
    THEN [table |-> table, response |-> Http404]
    ELSE LET new_value == strip(value)
             config == view.editable_fields[field]
         IN  IF config.type = "number" /\ new_value # <<>> /\ InvalidOperation(new_value)
             THEN [table |-> table, response |-> error_response]
             ELSE IF view.save_raises
             THEN [table |-> table, response |-> error_response]
             ELSE [table |-> [table EXCEPT ![pk][field] = Converted(config, new_value)],
                   response |-> inline_cell]

\* NitroInlineEditView.post(request, pk, field): the table afterwards and
\* the response
NitroInlineEditView_post(view, table, pk, field, value) ==
    IF field \notin DOMAIN view.editable_fields
    THEN [table |-> table, response |-> HttpResponse(400, NoToast, NoHeader, NoHeader)]
    ELSE IF pk \notin DOMAIN table
    THEN [table |-> table, response |-> Http404]
    ELSE LET new_value == strip(value)
             config == view.editable_fields[field]
         IN  IF config.type = "number" /\ new_value # <<>> /\ InvalidOperation(new_value)
             THEN [table |-> table, response |-> error_response]
             ELSE IF /\ config.choices # {}
                     /\ str(Converted(config, new_value)) \notin valid_values(config)
             THEN [table |-> table, response |-> error_response]
             ELSE IF view.save_raises
             THEN [table |-> table, response |-> error_response]
             ELSE [table |-> [table EXCEPT ![pk][field] = Converted(config, new_value)],
                   response |-> inline_cell]

\* The views: editable_fields, and whether obj.save() raises.
InlineEditInit ==
    /\ AtRest
    /\ \E editable_fields \in EditableFields, save_raises \in BOOLEAN,
          table \in EditTables, field \in EditFields, value \in PostedValues :
          call = Pending([view |-> [editable_fields |-> editable_fields,
                                    save_raises |-> save_raises],
                          table |-> table, pk |-> 1, field |-> field,
                          value |-> value])

\* POST to a NitroInlineEditView
InlineEditPost ==
    /\ call.op = "request"
    /\ LET d == call.data
           out == NitroInlineEditView_post(d.view, d.table, d.pk, d.field, d.value)
       IN  call' = Served("inline_edit",
                          [view |-> d.view, table |-> d.table, pk |-> d.pk,
                           field |-> d.field, value |-> d.value,
                           stored |-> out.table, response |-> out.response])
    /\ UNCHANGED wizard_vars

InlineEditNext == InlineEditPost

InlineEditSpec == InlineEditInit /\ [][InlineEditNext]_vars

(***************************************************************************)
(* Properties                                                              *)
(***************************************************************************)
Handling(method) == pc = "handled" /\ request.method = method
PostOf(actions) == Handling("POST") /\ request.action \in actions

\* The current step when the request arrived.
ArrivalStep == get_current_step(pre, request)

\* The wizard data when the request arrived, and with the submitted value
\* stored under the current step.
ArrivalData == get_wizard_data(pre)
SubmittedData ==
    IF ArrivalStep.form_class
    THEN [n \in DOMAIN ArrivalData \cup {ArrivalStep.name} |->
            IF n = ArrivalStep.name THEN request.input ELSE ArrivalData[n]]
    ELSE ArrivalData

\* A submit (default or finish action) that passes: the current step has no
\* form, or the submitted value is valid.
PassingSubmit(actions) ==
    /\ PostOf(actions)
    /\ ArrivalStep.form_class => request.input \in FieldValues

\* A condition read directly on wizard data.
Holds(c, wd) ==
    \/ c.kind = "none"
    \/ c.kind = "eq" /\ c.ref \in DOMAIN wd /\ wd[c.ref] = c.val
    \/ c.kind = "ne" /\ ~(c.ref \in DOMAIN wd /\ wd[c.ref] = c.val)

\* Position of a step name in the declaration (0 when undeclared).
DeclIndex(name) ==
    LET hits == {i \in 1..Len(steps) : steps[i].name = name}
    IN  IF hits = {} THEN 0 ELSE Min(hits)

\* The names of the declared steps shown on wizard data wd, in declaration order.
ShownNames(wd) == Names(SelectSeq(steps, LAMBDA st : Holds(st.condition, wd)))

\* Position of a name in a sequence of names (0 when absent).
PosIn(names, name) ==
    LET hits == {i \in 1..Len(names) : names[i] = name}
    IN  IF hits = {} THEN 0 ELSE Min(hits)

\* C1: a POST with the default or finish action whose current step has a form
\* that fails validation leaves the session's wizard data as it was, does
\* not invoke done, and re-renders the same current step with the form.
C1_InvalidSubmitChangesNothing ==
    (PostOf({"next", "finish"}) /\ ArrivalStep.form_class /\ request.input = Invalid)
    => /\ session = pre
       /\ writes = <<>>
       /\ done_calls = <<>>
       /\ response.kind = "render"
       /\ response.context.current_step = ArrivalStep.name
       /\ response.context.form.step = ArrivalStep.name
       /\ response.context.wizard_data = ArrivalData

C1_Witness ==
    /\ PostOf({"finish"}) /\ ArrivalStep.form_class /\ request.input = Invalid
    /\ ArrivalStep.name \in DOMAIN ArrivalData
    /\ Cardinality(DOMAIN ArrivalData) >= 2
    /\ response.kind = "render"

\* C3: after a POST with wizard_action=cancel, whatever was saved and
\* whatever the request carries, the session holds no wizard data, no form
\* was validated and done was not invoked.
C3_CancelClears ==
    PostOf({"cancel"})
    => /\ session_key \notin DOMAIN session
       /\ get_wizard_data(session) = EmptyData
       /\ validated = <<>>
       /\ done_calls = <<>>
       /\ response = redirect(get_cancel_url)

C3_Witness ==
    /\ PostOf({"cancel"})
    /\ Cardinality(DOMAIN ArrivalData) >= 2
    /\ request.input \in FieldValues
    /\ request.cstep \in DeclaredNames
    /\ session_key \notin DOMAIN session

\* C2 (as stated): a default-action POST on a current step whose form is
\* valid (or which has no form) saves the cleaned data under that step's
\* name; it then redirects to the first shown step declared after the
\* submitted step, and invokes done instead when no shown step follows it.
C2_SubmitGoesToFollowingStep ==
    (PassingSubmit({"next"}) /\ ArrivalStep # NoStep)
    => LET shown == ShownNames(SubmittedData)
           later == {i \in 1..Len(shown) :
                        DeclIndex(shown[i]) > DeclIndex(ArrivalStep.name)}
       IN  /\ ArrivalStep.form_class
                => writes = <<[op |-> "save", step |-> ArrivalStep.name]>>
           /\ IF later # {}
              THEN /\ response = redirect(get_step_url(shown[Min(later)]))
                   /\ done_calls = <<>>
                   /\ get_wizard_data(session) = SubmittedData
              ELSE /\ response.kind = "done"
                   /\ done_calls = <<SubmittedData>>

\* C4 (as stated): whenever done is invoked, every shown step that has a
\* form and is not skip_allowed has an entry in the wizard data passed to it.
C4_DoneOnlyWhenRequiredStepsSaved ==
    done_calls # <<>>
    => \A i \in 1..Len(steps) :
          (/\ Holds(steps[i].condition, done_calls[1])
           /\ steps[i].form_class
           /\ ~steps[i].skip_allowed)
          => steps[i].name \in DOMAIN done_calls[1]

\* C5: a POST with wizard_action=finish on a current step whose form is valid
\* (or which has no form) saves that step's data and invokes done at once
\* with the accumulated wizard data, also when later shown steps were never
\* submitted; the response is done's, not a redirect to a next step.
C5_FinishInvokesDone ==
    PassingSubmit({"finish"})
    => /\ writes = IF ArrivalStep.form_class
                   THEN <<[op |-> "save", step |-> ArrivalStep.name]>> ELSE <<>>
       /\ done_calls = <<SubmittedData>>
       /\ response = DoneResponse

C5_Witness ==
    /\ PassingSubmit({"finish"})
    /\ ArrivalStep.form_class
    /\ \E i \in 1..Len(steps) :
          /\ i > DeclIndex(ArrivalStep.name)
          /\ steps[i].form_class
          /\ Holds(steps[i].condition, SubmittedData)
          /\ steps[i].name \notin DOMAIN SubmittedData
    /\ done_calls = <<SubmittedData>>

\* C6 (as stated): no POST invokes done while its current step has a form
\* that was not successfully validated in that request.
C6_DoneOnlyAfterValidation ==
    (Handling("POST") /\ done_calls # <<>> /\ ArrivalStep.form_class)
    => validated = <<[step |-> ArrivalStep.name, ok |-> TRUE]>>

\* C6 (amended): no POST with the default or finish action invokes done
\* while its current step has a form that was not successfully validated in
\* that request, and no GET invokes done.
C6_SubmitDoneOnlyAfterValidation ==
    /\ (PostOf({"next", "finish"}) /\ done_calls # <<>> /\ ArrivalStep.form_class)
       => validated = <<[step |-> ArrivalStep.name, ok |-> TRUE]>>
    /\ Handling("GET") => done_calls = <<>>

C6_Witness ==
    /\ PostOf({"next"}) /\ ArrivalStep.form_class
    /\ ArrivalStep.name \in DOMAIN ArrivalData
    /\ done_calls # <<>>
    /\ validated = <<[step |-> ArrivalStep.name, ok |-> TRUE]>>

\* The declaration [A (form), B (condition: A.field == 1), C].
ScenarioABC ==
    /\ Len(steps) = 3
    /\ steps[1].form_class /\ steps[1].condition = NoCondition
    /\ steps[2].condition = [kind |-> "eq", ref |-> "A", val |-> 1]

\* C7: with steps [A, B (condition: A.field == 1), C], a valid submit of A
\* with another value leaves the shown steps [A, C] and redirects to C.  In
\* general the redirect after a passing submit is computed on the steps
\* shown on the data just saved: its target is the step right after the
\* position, among those steps, of the step the request names (the first
\* position when it names none of them).
C7_NextStepFromSavedData ==
    /\ (/\ ScenarioABC /\ PostOf({"next"}) /\ ArrivalStep.name = "A"
        /\ request.input \in FieldValues \ {1})
       => /\ Names(get_active_steps(session)) = <<"A", "C">>
          /\ response = redirect(get_step_url("C"))
    /\ (PassingSubmit({"next"}) /\ response.kind = "redirect")
       => LET shown == ShownNames(SubmittedData)
              p == PosIn(shown, RequestedStep(request))
              q == PosIn(shown, response.url.step)
          IN  /\ get_wizard_data(session) = SubmittedData
              /\ q = (IF p = 0 THEN 1 ELSE p) + 1

C7_Witness ==
    /\ ScenarioABC /\ PostOf({"next"}) /\ ArrivalStep.name = "A"
    /\ "A" \in DOMAIN ArrivalData /\ ArrivalData["A"] = 1
    /\ request.input \in FieldValues \ {1}
    /\ response = redirect(get_step_url("C"))

\* C8: the active steps a response is rendered with are exactly the declared
\* steps whose condition is absent or true on the current wizard data, in
\* declaration order and without duplicates, and rendering leaves the
\* session as it was.
C8_ActiveStepsAreTheShownSteps ==
    response.kind = "render"
    => LET names == response.context.steps
           wd == get_wizard_data(session)
       IN  /\ session = pre
           /\ \A i \in 1..Len(steps) :
                 Holds(steps[i].condition, wd)
                 <=> \E j \in 1..Len(names) : names[j] = steps[i].name
           /\ \A j \in 1..Len(names) : DeclIndex(names[j]) > 0
           /\ \A j, k \in 1..Len(names) :
                 j < k => DeclIndex(names[j]) < DeclIndex(names[k])

C8_Witness ==
    /\ response.kind = "render"
    /\ Len(steps) = 3
    /\ Len(response.context.steps) = 2
    /\ get_wizard_data(session) # EmptyData

\* C9: every key of the wizard data is the name of a declared step that has
\* a form and whose form passed validation, while it was the current step,
\* in a POST of this session; steps never submitted, skipped steps and steps
\* without a form have no entry.
C9_EntriesOnlyForValidatedSteps ==
    \A k \in DOMAIN get_wizard_data(session) :
        /\ DeclIndex(k) > 0
        /\ steps[DeclIndex(k)].form_class
        /\ k \in passed

C9_Witness ==
    /\ PostOf({"skip"}) /\ response.kind = "redirect"
    /\ ArrivalStep.form_class
    /\ ArrivalStep.name \notin DOMAIN get_wizard_data(session)
    /\ get_wizard_data(session) # EmptyData
    /\ \E i \in 1..Len(steps) : ~steps[i].form_class

\* C10: a GET and a POST with wizard_action back or skip validate no form
\* and write nothing to the wizard data, whatever step parameter and form
\* field they carry; if they reach done it receives the data as it was.
C10_GetBackSkipWriteNothing ==
    (Handling("GET") \/ PostOf({"back", "skip"}))
    => /\ validated = <<>>
       /\ writes = <<>>
       /\ done_calls = <<>> => session = pre
       /\ done_calls # <<>> => done_calls = <<ArrivalData>>

C10_Witness ==
    /\ PostOf({"back"}) /\ response.kind = "redirect"
    /\ request.input \in FieldValues
    /\ ArrivalStep.form_class
    /\ ArrivalStep.name \notin DOMAIN ArrivalData
    /\ ArrivalData # EmptyData
    /\ session = pre

\* The steps shown when the request arrived, and the position of the current
\* step among them (0 when there is none).
ArrivalShown == ShownNames(ArrivalData)
ArrivalPos == PosIn(ArrivalShown, ArrivalStep.name)

\* C11: when the step name a request carries (the step query parameter, or
\* else the current_step field) is absent, empty or not the name of a step
\* shown on the current wizard data, the current step index is 0 and the
\* current step is the first shown step (none when no step is shown); a GET
\* then renders that step and leaves the session as it was, and the only
\* error a request can end in is go_back's on an empty step list.
C11_UnknownStepResolvesToFirst ==
    (pc = "handled" /\ PosIn(ArrivalShown, RequestedStep(request)) = 0)
    => LET first == IF ArrivalShown = <<>> THEN NoName ELSE ArrivalShown[1]
       IN  /\ get_current_step_index(pre, request) = 0
           /\ ArrivalStep.name = first
           /\ Handling("GET")
              => /\ response.kind = "render"
                 /\ response.context.current_step_index = 0
                 /\ response.context.current_step = first
                 /\ session = pre
           /\ response.kind = "error"
              => (request.action = "back" /\ ArrivalShown = <<>>)

C11_Witness ==
    /\ Handling("GET")
    /\ Len(steps) >= 2
    /\ request.qstep = steps[1].name
    /\ request.qstep \in DOMAIN ArrivalData
    /\ PosIn(ArrivalShown, request.qstep) = 0
    /\ response.kind = "render"
    /\ response.context.current_step = steps[2].name

\* C12 (as stated): a POST with the default or finish action whose
\* current_step field names a shown step validates that step's form and
\* saves under that step's name, whatever the query string; a GET whose step
\* parameter names a shown step has that step as current step.
C12_PostUsesCurrentStepField ==
    /\ (PostOf({"next", "finish"}) /\ PosIn(ArrivalShown, request.cstep) > 0)
       => /\ \A i \in 1..Len(validated) : validated[i].step = request.cstep
          /\ \A i \in 1..Len(writes) : writes[i].step = request.cstep
    /\ (Handling("GET") /\ PosIn(ArrivalShown, request.qstep) > 0)
       => response.context.current_step = request.qstep

\* C13: a POST with wizard_action=back whose current step is the i-th shown
\* step redirects to the (i-1)-th shown step when there is one and to the
\* first shown step otherwise; the target is never after the current step,
\* done is not invoked and the session stays as it was.
C13_BackGoesToPreviousStep ==
    (PostOf({"back"}) /\ ArrivalStep # NoStep)
    => LET q == PosIn(ArrivalShown, response.url.step)
       IN  /\ response.kind = "redirect"
           /\ response.url.path = WizardPath
           /\ q = IF ArrivalPos > 1 THEN ArrivalPos - 1 ELSE 1
           /\ q <= ArrivalPos
           /\ done_calls = <<>>
           /\ session = pre

C13_Witness ==
    /\ PostOf({"back"})
    /\ Len(steps) = 3 /\ Len(ArrivalShown) = 2
    /\ ArrivalStep.name = "C"
    /\ response = redirect(get_step_url("A"))

\* C14: a POST with wizard_action=skip whose current step is not
\* skip_allowed re-renders that step at the same index; it redirects nowhere,
\* validates and writes nothing and does not invoke done, also on the last
\* shown step.
C14_SkipRefusedRerenders ==
    (PostOf({"skip"}) /\ ArrivalStep # NoStep /\ ~ArrivalStep.skip_allowed)
    => /\ response.kind = "render"
       /\ response.context.current_step = ArrivalStep.name
       /\ response.context.current_step_index = ArrivalPos - 1
       /\ validated = <<>>
       /\ writes = <<>>
       /\ done_calls = <<>>
       /\ session = pre

C14_Witness ==
    /\ PostOf({"skip"}) /\ ~ArrivalStep.skip_allowed
    /\ Len(ArrivalShown) >= 2 /\ ArrivalPos = Len(ArrivalShown)
    /\ ArrivalData # EmptyData
    /\ response.kind = "render"
    /\ response.context.is_last_step

\* C15: a POST with wizard_action=skip whose current step is skip_allowed
\* redirects to the next shown step, or invokes done with the wizard data as
\* it was when the current step is the last shown step; no form is
\* validated and the skipped step gets no entry.
C15_SkipAllowedGoesOn ==
    (PostOf({"skip"}) /\ ArrivalStep # NoStep /\ ArrivalStep.skip_allowed)
    => /\ validated = <<>>
       /\ writes = <<>>
       /\ IF ArrivalPos < Len(ArrivalShown)
          THEN /\ response = redirect(get_step_url(ArrivalShown[ArrivalPos + 1]))
               /\ done_calls = <<>>
               /\ session = pre
          ELSE /\ response = DoneResponse
               /\ done_calls = <<ArrivalData>>
       /\ ArrivalStep.name \in DOMAIN get_wizard_data(session)
          => ArrivalStep.name \in DOMAIN ArrivalData

C15_Witness ==
    /\ PostOf({"skip"}) /\ ArrivalStep.skip_allowed
    /\ ArrivalStep.form_class /\ request.input \in FieldValues
    /\ ArrivalStep.name \notin DOMAIN ArrivalData
    /\ ArrivalData # EmptyData
    /\ done_calls = <<ArrivalData>>

C17_DataDeletedAfterDone ==
    done_calls # <<>> => session_key \notin DOMAIN session

\* C17 (amended): the engine deletes nothing on completion.  After a request
\* that invoked done the wizard data is either exactly what done received
\* (done did not clear) or deleted from the session (done called
\* clear_wizard_data); and a request that arrives when the session holds no
\* wizard data passes done nothing but what it validated and saved itself.
C17_DoneClearsOrKeeps ==
    done_calls # <<>>
    => /\ \/ session_key \notin DOMAIN session
          \/ session_key \in DOMAIN session /\ session[session_key] = done_calls[1]
       /\ session_key \notin DOMAIN pre
          => /\ DOMAIN done_calls[1] \subseteq Passed(validated)
             /\ \A k \in DOMAIN done_calls[1] : done_calls[1][k] = request.input

C17_Witness ==
    /\ done_calls # <<>>
    /\ Cardinality(DOMAIN done_calls[1]) >= 2
    /\ session_key \in DOMAIN pre
    /\ session_key \notin DOMAIN session
    /\ get_wizard_data(session) = EmptyData

\* C18: after save_step_data(name, d) the wizard data holds exactly d under
\* name, with the fields of d and no others; every other step's entry and
\* every other key of the session are as before; and get_step_data(name),
\* read from the session at once, returns d.
C18_SaveStepDataOverwrites ==
    call.op = "save_step_data"
    => LET before == get_wizard_data(pre)
           after == get_wizard_data(session)
       IN  /\ DOMAIN after = DOMAIN before \cup {call.step}
           /\ DOMAIN after[call.step] = DOMAIN call.data
           /\ \A f \in DOMAIN call.data : after[call.step][f] = call.data[f]
           /\ \A n \in DOMAIN before \ {call.step} : after[n] = before[n]
           /\ DOMAIN session = DOMAIN pre \cup {session_key}
           /\ \A k \in DOMAIN pre \ {session_key} : session[k] = pre[k]
           /\ get_step_data(session, call.step) = call.data

C18_Witness ==
    /\ call.op = "save_step_data"
    /\ call.step \in DOMAIN get_wizard_data(pre)
    /\ DOMAIN get_wizard_data(pre)[call.step] = FieldNames
    /\ DOMAIN call.data = {"f"}
    /\ Cardinality(DOMAIN get_wizard_data(pre)) >= 2
    /\ get_step_data(session, call.step) = call.data

\* C19 (as stated): a GET whose current step has a form builds it unbound
\* with, as initial data, the cleaned data of the step's last valid submit
\* since the last cancel, and with empty initial data when there was none; a
\* current step without a form class yields no form.
C19_InitialIsLastSubmit ==
    Handling("GET")
    => LET form == response.context.form
       IN  IF ArrivalStep.form_class
           THEN /\ form.step = ArrivalStep.name
                /\ ~form.bound
                /\ form.initial = IF ArrivalStep.name \in DOMAIN submitted
                                  THEN submitted[ArrivalStep.name] ELSE 0
           ELSE form = NoForm

\* C19 (amended): as stated, but the last valid submit counts only when the
\* wizard data was not deleted since (by cancel, or by a done that clears);
\* after a deletion the form is built with empty initial data.
C19_InitialIsLastSubmitSinceCleared ==
    Handling("GET")
    => LET form == response.context.form
       IN  IF ArrivalStep.form_class
           THEN /\ form.step = ArrivalStep.name
                /\ ~form.bound
                /\ form.initial = IF ArrivalStep.name \in passed
                                  THEN submitted[ArrivalStep.name] ELSE 0
           ELSE form = NoForm

C19_Witness ==
    /\ Handling("GET")
    /\ ArrivalStep.form_class
    /\ ArrivalStep.name \in passed
    /\ response.context.form.initial = submitted[ArrivalStep.name]
    /\ \E n \in DOMAIN submitted : n \notin passed

\* C20: with two wizards of distinct wizard_name in one session, a request
\* handled by one leaves the other's session entry as it was; and whenever a
\* wizard is about to handle a request, its wizard data is what it held when
\* its own last request ended, and so are its active steps and the step
\* every step parameter resolves to, whatever the other wizard did since.
C20_WizardsDoNotInterfere ==
    /\ pc = "handled"
       => \A w \in WizardNames \ {wizard_name} :
             LET k == "wizard_" \o w
             IN  /\ k \in DOMAIN session <=> k \in DOMAIN pre
                 /\ k \in DOMAIN pre => session[k] = pre[k]
    /\ pc = "idle"
       => LET shown == ShownNames(seen[wizard_name])
          IN  /\ get_wizard_data(session) = seen[wizard_name]
              /\ Names(get_active_steps(session)) = shown
              /\ \A n \in StepParams :
                    get_current_step_index(session,
                        [NoRequest EXCEPT !.method = "GET", !.qstep = n])
                    = Max2(PosIn(shown, n), 1) - 1

C20_Witness ==
    /\ PostOf({"cancel"})
    /\ wizard_name = DefaultWizardName
    /\ session_key \in DOMAIN pre
    /\ session_key \notin DOMAIN session
    /\ seen["signup"] # EmptyData
    /\ "wizard_signup" \in DOMAIN session
    /\ session["wizard_signup"] = seen["signup"]

\* C29: every redirect a POST with the default, back or skip action ends in
\* goes to the wizard's own path with ?step=<name>, where name is a declared
\* step that is shown on the wizard data the session holds at that moment.
C29_RedirectsTargetShownSteps ==
    (PostOf({"next", "finish", "back", "skip"}) /\ response.kind = "redirect")
    => /\ response.url.path = WizardPath
       /\ DeclIndex(response.url.step) > 0
       /\ Holds(steps[DeclIndex(response.url.step)].condition,
                get_wizard_data(session))
       /\ PosIn(Names(get_active_steps(session)), response.url.step) > 0

C29_Witness ==
    /\ PostOf({"skip"}) /\ response.kind = "redirect"
    /\ Len(steps) = 3
    /\ ~Holds(steps[2].condition, get_wizard_data(session))
    /\ ArrivalStep.name = "A"
    /\ response.url.step = "C"

\* C30: progress_percent is an integer from 0 to 100; it is 0 at the first
\* active step, 100 exactly when the current step is the last of two or
\* more active steps, and for a given number of active steps no smaller than
\* at any earlier index.
C30_ProgressPercentInRange ==
    call.op = "progress_percent"
    => LET i == call.data.current_index
           n == call.data.total_steps
           percent == call.data.progress_percent
       IN  /\ percent \in 0..100
           /\ i = 0 => percent = 0
           /\ percent = 100 <=> (n >= 2 /\ i = n - 1)
           /\ \A j \in 0..i : progress_percent(j, n) <= percent

C30_Witness ==
    /\ call.op = "progress_percent"
    /\ call.data.total_steps = 7
    /\ call.data.current_index = 4
    /\ call.data.progress_percent = 66

\* C21: when the requests racing on one session have all written, the
\* wizard data stored for that session is the value of the last writer: what
\* that request read, with its own entry; an entry of an earlier writer is
\* there only if the last writer had read it.  The other session's stored
\* data is never touched.
C21_LastWriteWins ==
    /\ store[OtherSession] = OtherStored
    /\ (\A r \in Racing : workers[r].pc = "written")
       => LET final == get_wizard_data(store[RacingSession])
              last == workers[call.data.worker]
          IN  /\ final = call.data.wizard_data
              /\ final = StepWritten(last.wizard_data, last.step, last.input)
              /\ \A r \in Racing :
                    (workers[r].step \in DOMAIN final
                     /\ final[workers[r].step] = workers[r].input)
                    \/ (r # call.data.worker
                        /\ (workers[r].step = last.step
                            \/ workers[r].step \notin DOMAIN last.wizard_data
                            \/ last.wizard_data[workers[r].step] # workers[r].input))

C21_Witness ==
    /\ \A r \in Racing : workers[r].pc = "written"
    /\ workers[1].step = "A" /\ workers[2].step = "B"
    /\ call.data.worker = 2
    /\ "A" \notin DOMAIN get_wizard_data(store[RacingSession])
    /\ "B" \in DOMAIN get_wizard_data(store[RacingSession])

\* The value at the end of a path whose attributes all exist, written out
\* for each path length; Missing when an attribute of the path does not
\* exist on the value reached before it.
Missing == [kind |-> "missing"]
HasAttr(value, attr) == value.kind = "object" /\ attr \in DOMAIN value.attrs
Reached(obj, path) ==
    IF ~HasAttr(obj, path[1]) THEN Missing
    ELSE IF Len(path) = 1 THEN obj.attrs[path[1]]
    ELSE IF ~HasAttr(obj.attrs[path[1]], path[2]) THEN Missing
    ELSE IF Len(path) = 2 THEN obj.attrs[path[1]].attrs[path[2]]
    ELSE Missing

\* C22: when every attribute of the path exists, get_field_value returns the
\* value reached, or what calling it gives when it is callable; when an
\* attribute is missing or a value on the way is None it returns None and
\* nothing is raised; and table_cell renders the placeholder exactly when
\* the value is None.
C22_FieldValueFollowsPath ==
    call.op = "table_cell"
    => LET obj == call.data.obj
           path == call.data.column.field
           end == Reached(obj, path)
           value == call.data.value
       IN  /\ IF end = Missing THEN value = None
              ELSE IF end.kind = "callable" THEN value = end.result
              ELSE value = end
           /\ value = Raised => (end # Missing /\ end = Callable(Raised))
           /\ call.data.cell = Placeholder <=> value = None
           /\ call.data.cell.kind = "text"
              => /\ call.data.cell.value = value
                 /\ call.data.cell.display = call.data.column.display

C22_Witness ==
    /\ call.op = "table_cell"
    /\ Len(call.data.column.field) = 2
    /\ Reached(call.data.obj, call.data.column.field) = Callable(Plain(1))
    /\ call.data.value = Plain(1)
    /\ call.data.cell.kind = "text"

\* C23: get_queryset of a view using OrganizationMixin never returns a row
\* whose org_field differs from the current user's organization, for every
\* value get_organization can return and every model.
C23_QuerysetOnlyOwnOrganization ==
    call.op = "get_queryset" =>
        \A row \in call.data.result :
            org_field \in DOMAIN row =>
                row[org_field] = organization(call.data.view)

\* The permission check of a dispatched view, written out on the view's
\* attributes: a required permission is set, and the user is not granted it.
PermissionRequired == call.data.view.required_permission # None
PermissionGranted ==
    call.data.view.required_permission.v \in call.data.view.granted

\* C24: with PermissionMixin, when required_permission is set and
\* check_permission returns false, dispatch raises PermissionDenied and no
\* request handler (get/post) has run; a handler runs only when the check
\* passed or required_permission is None, and then it is the handler of the
\* request method.
C24_DeniedBeforeHandler ==
    call.op = "dispatch" =>
        LET result == call.data.result
        IN  /\ (PermissionRequired /\ ~PermissionGranted) =>
                   /\ result.raised = PermissionDenied
                   /\ result.handlers = <<>>
            /\ result.handlers # <<>> =>
                   /\ ~PermissionRequired \/ PermissionGranted
                   /\ result.raised = NotRaised
                   /\ result.handlers = <<handler(call.data.method)>>

C24_Witness ==
    /\ call.op = "dispatch"
    /\ call.data.method = "POST"
    /\ PermissionRequired
    /\ ~PermissionGranted
    /\ call.data.view.granted # {}
    /\ call.data.result.raised = PermissionDenied

\* A handled delete request whose object exists, and what can_delete said.
DeleteOf(can) ==
    /\ call.op = "delete"
    /\ call.data.pk \in DOMAIN call.data.table
    /\ call.data.view.can_delete[1] = can

\* C25: NitroDeleteView.post performs the delete only if can_delete(obj)
\* returns true; when it returns (False, message) every stored object is
\* unchanged and the response is an error toast carrying message, with no
\* redirect and no refresh header; with soft_delete = True the object is
\* kept and only soft_delete_field is set to False, and otherwise the object
\* is removed; no other object is touched.
C25_DeleteOnlyIfAllowed ==
    LET view == call.data.view
        before == call.data.table
        after == call.data.stored
        pk == call.data.pk
        others == DOMAIN before \ {pk}
    IN  /\ DeleteOf(FALSE) =>
              /\ after = before
              /\ call.data.response.toast = Toast(view.can_delete[2], "error")
              /\ call.data.response.redirect = NoHeader
              /\ call.data.response.refresh = NoHeader
        /\ DeleteOf(TRUE) =>
              /\ \A k \in others : k \in DOMAIN after /\ after[k] = before[k]
              /\ view.soft_delete =>
                    /\ pk \in DOMAIN after
                    /\ after[pk].is_active = FALSE
                    /\ after[pk].name = before[pk].name
              /\ ~view.soft_delete => pk \notin DOMAIN after
              /\ call.data.response.toast.type = "success"
        /\ (call.op = "delete" /\ call.data.stored # call.data.table) => DeleteOf(TRUE)

C25_Witness ==
    /\ DeleteOf(FALSE)
    /\ call.data.view.soft_delete
    /\ call.data.table[call.data.pk].is_active
    /\ call.data.view.redirect_url # NoHeader
    /\ call.data.response.toast.message = "locked"

\* The three conditions of a bulk POST: an action name, a selection, and a
\* BulkAction of that name in bulk_actions.
BulkAccepted ==
    /\ call.data.bulk_action # ""
    /\ call.data.selected_ids # <<>>
    /\ call.data.bulk_action \in call.data.view.bulk_actions

\* C26: NitroListView.post invokes a handle_bulk_<action> handler only when
\* bulk_action is non-empty, selected_ids is non-empty and the action name is
\* declared in bulk_actions, and then only the handler of that name, once;
\* in every other case no handler runs and the response is a warning or
\* error toast.
C26_BulkHandlerOnlyIfDeclared ==
    call.op = "bulk" =>
        /\ call.data.handlers # <<>> =>
              /\ BulkAccepted
              /\ Len(call.data.handlers) = 1
              /\ call.data.handlers[1].name = call.data.bulk_action
              /\ call.data.handlers[1].selected_ids = call.data.selected_ids
        /\ ~BulkAccepted =>
              /\ call.data.handlers = <<>>
              /\ call.data.response.toast.type \in {"warning", "error"}
              /\ call.data.response.refresh = NoHeader

C26_Witness ==
    /\ call.op = "bulk"
    /\ call.data.bulk_action = "delete"
    /\ call.data.selected_ids = <<1, 2>>
    /\ call.data.view.bulk_actions = {"activate"}
    /\ call.data.view.handlers = {"activate", "delete"}
    /\ call.data.handlers = <<>>
    /\ call.data.response.toast.type = "error"

\* A sort value that is a field of sortable_fields, optionally prefixed by
\* a single '-'.
SortableValue(view, sort) ==
    \/ sort \in view.sortable_fields
    \/ sort # <<>> /\ Head(sort) = "-" /\ Tail(sort) \in view.sortable_fields

\* C27: apply_sort orders the queryset by the requested ?sort= value (taken
\* without surrounding whitespace) only if that value is a field of
\* sortable_fields optionally prefixed by a single '-'; every other value
\* results in the default_sort ordering, or no ordering when default_sort is
\* empty.
C27_SortOnlySortableFields ==
    call.op = "apply_sort" =>
        LET view == call.data.view
            sort == strip(call.data.sort)
        IN  IF SortableValue(view, sort)
            THEN call.data.result = OrderBy(sort)
            ELSE IF view.default_sort # <<>>
            THEN call.data.result = OrderBy(view.default_sort)
            ELSE call.data.result = Unordered

\* The texts of the choices a field declares (empty when it declares none
\* or is not editable).
DeclaredChoices(view, field) ==
    IF field \in DOMAIN view.editable_fields
    THEN {str(c) : c \in view.editable_fields[field].choices}
    ELSE {}

====
